---- MODULE Spec2Model ----
(***************************************************************************)
(* The evaluation engine of the backend: the content-addressed response    *)
(* cache (utils/cache.ts), the retrying model client (utils/aiClient.ts)   *)
(* and the sequential scheduler (services/evaluationService.ts).           *)
(*                                                                         *)
(* Strings that the code inspects or concatenates are sequences of tokens  *)
(* (one token per character or per indivisible word); an optional value is *)
(* a sequence of length 0 (absent) or 1 (present).                         *)
(***************************************************************************)
EXTENDS Integers, Sequences, FiniteSets, TLC

VARIABLES
    cache,                  \* the cache store: cache key -> CacheEntry
    clock,                  \* Date.now(): it ticks at each item evaluated
    pc,                     \* where the request handler stands
    prompts,                \* runEvaluation: the prompts argument
    modelToUse,             \* runEvaluation: modelToUse
    systemPromptTemplate,   \* runEvaluation: systemPromptTemplate
    i,                      \* runEvaluation: the loop index (1-based)
    results,                \* runEvaluation: results
    attempt,                \* generateTextWithRetry: attempt
    lastError,              \* generateTextWithRetry: lastError (optional)
    pending,                \* evaluatePrompt: result of generateTextWithRetry (optional)
    log,                    \* provider calls and sleeps of the current invocation
    clientOutcome,          \* how the last invocation of generateTextWithRetry ended
    items,                  \* per item of the run: what its evaluation did
    faults,                 \* cache storage faults that have happened so far
    prev,                   \* the last completed run that had items: its inputs and
                            \* outcomes (optional)
    request,                \* the request being served: what it asked for
    reply,                  \* the response sent to the last request (optional)
    systemPrompts,          \* multi-prompt run: the system prompts {name, content}
    spIndex,                \* multi-prompt run: the index of the system prompt that
                            \* is evaluated (0 in a single-prompt run)
    promptResults,          \* multi-prompt run: the PromptResults collected so far
    seeded,                 \* multi-prompt run: the rows imported by the request and
                            \* whether the cache write of each one worked
    probe,                  \* inputs and outputs of a function applied on its own
    evals,                  \* the evaluations of one item that run concurrently
    stream,                 \* the streaming client: the locals of one invocation of
                            \* generateTextWithRetry (optional)
    savedRun,               \* the run that the handler of the last run saved (optional)
    ratingsFile,            \* the ratings file of one (run, user): its ratings (optional)
    saveCalls,              \* the calls of saveRating on that file: their arguments,
                            \* where they stand and their local existing
    rated                   \* the ratings that completed calls have saved, the latest
                            \* one of each question

runVars == <<cache, clock, pc, prompts, modelToUse, systemPromptTemplate, i, results,
             attempt, lastError, pending, log, clientOutcome, items, faults, prev,
             request, reply, systemPrompts, spIndex, promptResults, seeded>>

multiVars == <<systemPrompts, spIndex, promptResults, seeded>>

raceVars == <<evals>>

streamVars == <<stream>>

saveVars == <<savedRun>>

ratingVars == <<ratingsFile, saveCalls, rated>>

sideVars == <<raceVars, streamVars, saveVars, ratingVars>>

vars == <<runVars, probe, sideVars>>

----------------------------------------------------------------------------
(* Bounds of the model *)

MaxWork == 2       \* the items evaluated in one behaviour, over all its requests
MaxFaults == 1
MaxKeyLen == 2
MaxTemplateLen == 2
MaxMessageLen == 2
MaxRows == 2       \* the rows of an uploaded file
MaxErrorLen == 3   \* the tokens of an error message
MaxRuns == 2       \* the runs that evaluate an item at the same time
MaxParts == 4      \* the parts that one stream delivers
MaxCalls == 2      \* the calls of saveRating on one ratings file

(* Program constants *)

(* a bug: one attempt too many *)
maxRetriesPlusOne == 5 + 1

maxRetries == 5
baseDelay == 1000
DEFAULT_MODEL == <<"claude-3-5-sonnet-20241022">>
(* the DEFAULT_MODEL of the routes *)
ROUTE_DEFAULT_MODEL == <<"claude-sonnet-4-5-20250929">>
PH == "{user_message}"
FALLBACK_TEMPLATE == <<"You are a helpful AI assistant.", "\n", "\n", "User message: ", PH>>

(* Inputs *)

Messages == { <<"a">>, <<"b">> }
BlankMessage == <<" ">>

(* the optional fields of the request body: the model, and the system prompt
   (absent, the empty string, or a template) *)
Requests == { [model |-> <<>>, systemPrompt |-> <<>>],
              [model |-> <<>>, systemPrompt |-> << <<>> >>],
              [model |-> <<"m">>, systemPrompt |-> << <<"S", " ", PH>> >>] }
FileTemplate == <<"F", " ", PH>>
FileReads == { <<FileTemplate>>, <<>> }
(* what the provider can answer: a text, or the empty text *)
ProviderResults == { [text |-> "r1", latencyMs |-> 7], [text |-> "", latencyMs |-> 0] }

(* the prompts array of a request body: no prompts, prompts, or prompts with a
   blank one among them *)
RawPromptLists ==
    {<<>>, <<BlankMessage>>} \cup UNION { [1..n -> Messages] : n \in 1..MaxWork }
        \cup { <<BlankMessage>> \o ps : ps \in [1..1 -> Messages] }

(* the prompts of an uploaded CSV file and the prompts of a stored dataset *)
FilePrompts == { <<>>, <<BlankMessage>>, << <<"b">> >> }
DatasetPrompts == { <<>>, << <<"a">> >> }

RouteRequest(source, found, ps, options) ==
    [source |-> source, found |-> found, prompts |-> ps, options |-> options]

(* the requests to POST /evaluate: where the prompts come from (found: loadDataset
   finds the dataset that is named), and the optional fields *)
RouteRequests ==
    { RouteRequest("none", FALSE, <<>>, [model |-> <<>>, systemPrompt |-> <<>>]),
      RouteRequest("datasetName", FALSE, <<>>, [model |-> <<>>, systemPrompt |-> <<>>]) }
    \cup { RouteRequest("prompts", FALSE, ps, o) : ps \in RawPromptLists, o \in Requests }
    \cup { RouteRequest("file", FALSE, ps, o) : ps \in FilePrompts, o \in Requests }
    \cup { RouteRequest("datasetName", TRUE, ps, o) : ps \in DatasetPrompts, o \in Requests }

----------------------------------------------------------------------------
(* Errors.  statusCode and status are 0 when undefined (both are falsy);   *)
(* isError tells an Error object from any other thrown value.              *)

Err(isErr, statusCode, status, message) ==
    [isError |-> isErr, statusCode |-> statusCode, status |-> status, message |-> message]

(* what a provider call can throw: a rate-limit error, an authentication error,
   an Error whose message is empty, and a value that is not an Error *)
ProviderErrors ==
    { Err(TRUE, 429, 0, <<"overloaded">>),
      Err(TRUE, 401, 0, <<"invalid", " ", "key">>),
      Err(TRUE, 0, 0, <<>>),
      Err(FALSE, 0, 0, <<>>) }

StorageError == Err(TRUE, 0, 0, <<"EACCES">>)

(* a bug: the message is compared as it is *)
toLowerCaseIdentity(s) == s

toLowerCase(s) ==
    [k \in 1..Len(s) |->
        CASE s[k] = "Rate" -> "rate"
          [] s[k] = "Limit" -> "limit"
          [] s[k] = "Too" -> "too"
          [] s[k] = "Many" -> "many"
          [] s[k] = "Requests" -> "requests"
          [] OTHER -> s[k]]

includes(s, needle) ==
    \E k \in 1..(Len(s) - Len(needle) + 1) : SubSeq(s, k, k + Len(needle) - 1) = needle

isRateLimitError(error) ==
    LET message == toLowerCase(error.message)
        statusCode == IF error.statusCode # 0 THEN error.statusCode ELSE error.status
    IN  \/ statusCode = 429
        \/ includes(message, <<"rate", " ", "limit">>)
        \/ includes(message, <<"too", " ", "many", " ", "requests">>)

----------------------------------------------------------------------------
(* Prompt template: String.prototype.replace with a global pattern and a   *)
(* replacement string, in which $$, $&, $` and $' are replacement patterns  *)
(* (the tokens "backtick" and "apostrophe" stand for the characters ` and ') *)

RECURSIVE ExpandReplacement(_, _, _)
ExpandReplacement(repl, before, after) ==
    IF repl = <<>> THEN <<>>
    ELSE IF Head(repl) = "$" /\ Len(repl) >= 2 /\ repl[2] \in {"$", "&", "backtick", "apostrophe"}
         THEN (CASE repl[2] = "$" -> <<"$">>
                 [] repl[2] = "&" -> <<PH>>
                 [] repl[2] = "backtick" -> before
                 [] repl[2] = "apostrophe" -> after)
              \o ExpandReplacement(SubSeq(repl, 3, Len(repl)), before, after)
         ELSE <<Head(repl)>> \o ExpandReplacement(Tail(repl), before, after)

RECURSIVE ReplaceFrom(_, _, _)
ReplaceFrom(template, k, userMessage) ==
    IF k > Len(template) THEN <<>>
    ELSE (IF template[k] = PH
          THEN ExpandReplacement(userMessage, SubSeq(template, 1, k - 1),
                                 SubSeq(template, k + 1, Len(template)))
          ELSE <<template[k]>>)
         \o ReplaceFrom(template, k + 1, userMessage)

(* a bug: a template without the placeholder gets the message appended *)
applyPromptTemplateOrAppend(template, userMessage) ==
    IF \E k \in 1..Len(template) : template[k] = PH
    THEN ReplaceFrom(template, 1, userMessage)
    ELSE template \o userMessage

applyPromptTemplate(template, userMessage) == ReplaceFrom(template, 1, userMessage)

(* the truthiness of an optional string: absent and '' are falsy *)
Truthy(optString) == optString # <<>> /\ optString[1] # <<>>

(* a bug: the catch block returns an empty template *)
loadSystemPromptTemplateNoFallback(customTemplate, fileRead) ==
    IF Truthy(customTemplate) THEN customTemplate[1]
    ELSE IF fileRead # <<>> THEN fileRead[1]
    ELSE <<>>

loadSystemPromptTemplate(customTemplate, fileRead) ==
    IF Truthy(customTemplate) THEN customTemplate[1]
    ELSE IF fileRead # <<>> THEN fileRead[1]
    ELSE FALLBACK_TEMPLATE

----------------------------------------------------------------------------
(* Cache store.  SHA-256 is taken to be collision-free, so a key is        *)
(* identified with the string that is hashed.                              *)

generateCacheKey(model, systemPrompt, userMessage) ==
    model \o <<"|">> \o systemPrompt \o <<"|">> \o userMessage

(* a bug: the latency is not stored *)
CacheEntryNoLatency(userMessage, response, model, systemPrompt, now, latencyMs) ==
    [prompt |-> userMessage, response |-> response, model |-> model,
     systemPrompt |-> systemPrompt, timestamp |-> now, latencyMs |-> 0]

CacheEntry(userMessage, response, model, systemPrompt, now, latencyMs) ==
    [prompt |-> userMessage, response |-> response, model |-> model,
     systemPrompt |-> systemPrompt, timestamp |-> now, latencyMs |-> latencyMs]

(* outcome: "ok" the read works, "readFail" reading or parsing fails (caught),
   "throw" the directory or the storage backend is unavailable (not caught) *)
getCachedResponse(store, model, systemPrompt, userMessage, outcome) ==
    LET key == generateCacheKey(model, systemPrompt, userMessage)
    IN  IF outcome = "ok" /\ key \in DOMAIN store THEN <<store[key]>> ELSE <<>>

(* a bug: the key is computed from the arguments in the wrong order *)
setCachedResponseSwappedKey(store, model, systemPrompt, userMessage, response, latencyMs, now) ==
    LET key == generateCacheKey(model, userMessage, systemPrompt)
        entry == CacheEntry(userMessage, response, model, systemPrompt, now, latencyMs)
    IN  [k \in DOMAIN store \cup {key} |-> IF k = key THEN entry ELSE store[k]]

setCachedResponse(store, model, systemPrompt, userMessage, response, latencyMs, now) ==
    LET key == generateCacheKey(model, systemPrompt, userMessage)
        entry == CacheEntry(userMessage, response, model, systemPrompt, now, latencyMs)
    IN  [k \in DOMAIN store \cup {key} |-> IF k = key THEN entry ELSE store[k]]

----------------------------------------------------------------------------
(* evaluatePrompt: the three results it can return *)

(* a bug: a hit reports no latency *)
HitResultNoLatency(prompt, cached) ==
    [prompt |-> prompt, response |-> cached.response, cached |-> TRUE,
     latencyMs |-> 0, error |-> <<>>]

HitResult(prompt, cached) ==
    [prompt |-> prompt, response |-> cached.response, cached |-> TRUE,
     latencyMs |-> cached.latencyMs, error |-> <<>>]

MissResult(prompt, result) ==
    [prompt |-> prompt, response |-> result.text, cached |-> FALSE,
     latencyMs |-> result.latencyMs, error |-> <<>>]

(* a bug: the error result loses its prompt *)
ErrorResultWithoutPrompt(prompt, error) ==
    [prompt |-> <<>>, response |-> "", cached |-> FALSE, latencyMs |-> 0,
     error |-> << IF error.isError THEN error.message ELSE <<"Unknown error">> >>]

ErrorResult(prompt, error) ==
    [prompt |-> prompt, response |-> "", cached |-> FALSE, latencyMs |-> 0,
     error |-> << IF error.isError THEN error.message ELSE <<"Unknown error">> >>]

----------------------------------------------------------------------------
(* generateTextWithRetry: its decisions *)

RECURSIVE Pow2(_)
Pow2(n) == IF n = 0 THEN 1 ELSE 2 * Pow2(n - 1)

BackoffDelay(a) == baseDelay * Pow2(a)

(* a bug: every error is retried *)
SleepsAndRetriesAnyError(error, a) == a < maxRetries - 1

(* the catch block: sleep and continue, or throw *)
SleepsAndRetries(error, a) == isRateLimitError(error) /\ a < maxRetries - 1

(* the loop condition of the for statement *)
LoopRuns(a) == a < maxRetries

(* a bug: the latency is not reported *)
GenerateTextResultNoLatency(text, latencyMs) == [text |-> text, latencyMs |-> 0]

(* the object returned after a successful call (usage is not read by any caller) *)
GenerateTextResult(text, latencyMs) == [text |-> text, latencyMs |-> latencyMs]

CallOk(text, latencyMs) ==
    [type |-> "call", ok |-> TRUE, err |-> <<>>, text |-> text, latencyMs |-> latencyMs, ms |-> 0]
CallErr(error) ==
    [type |-> "call", ok |-> FALSE, err |-> <<error>>, text |-> "", latencyMs |-> 0, ms |-> 0]
SleepEv(ms) ==
    [type |-> "sleep", ok |-> FALSE, err |-> <<>>, text |-> "", latencyMs |-> 0, ms |-> ms]

Returned(result) == [state |-> "returned", err |-> <<>>, result |-> <<result>>]
Threw(error) == [state |-> "threw", err |-> <<error>>, result |-> <<>>]
NoOutcome == [state |-> "none", err |-> <<>>, result |-> <<>>]

----------------------------------------------------------------------------
(* runEvaluation *)

(* the loop condition of the for statement over the prompts (1-based) *)
LoopContinues(idx, n) == idx <= n

(* what the evaluation of one item did: the cache as the lookup found it, how the
   lookup and the write ended, and its use of the client and of the provider *)
NewItem(key, store, read, lookup) ==
    [key |-> key, hadEntry |-> key \in DOMAIN store,
     entry |-> IF key \in DOMAIN store THEN <<store[key]>> ELSE <<>>,
     read |-> read, lookup |-> lookup, invocations |-> 0, call |-> <<>>,
     providerCalled |-> FALSE, providerOk |-> <<>>, write |-> "none"]

(* the options passed to generateTextWithRetry *)
GenerateTextOptions(model, systemPrompt, userMessage) ==
    [model |-> model, systemPrompt |-> systemPrompt, userMessage |-> userMessage]

(* what is remembered of the request being served: whether it carried a system
   prompt that is not empty, whether the default template file was read
   ("notRead", "read", "failed"), and, once the 30 minutes of the run-level time
   limit have elapsed, the number of results that were complete at that time
   (optional) *)
RequestSeen(model, systemPrompt, file) ==
    [model |-> model, custom |-> systemPrompt # <<>> /\ systemPrompt[1] # <<>>,
     file |-> file, expiredAt |-> <<>>]
NoRequest == RequestSeen(<<>>, <<>>, "notRead")
(* a request to the multi-prompt route: its system prompts are stored ones *)
NamedPromptsRequest(model) ==
    [model |-> model, custom |-> TRUE, file |-> "notRead", expiredAt |-> <<>>]

(* what saveRun records of the model *)
SavedRun(model) == [model |-> model]

(* the responses of POST /evaluate *)
ErrorReply(status) == [status |-> status, total |-> 0, cached |-> 0, errors |-> 0]

Faulty(item) == item.read # "ok" \/ item.write = "fail"

(* the kinds of storage failure met by the items: "readFail" a read that the
   lookup caught, "throw" a lookup that threw, "fail" a write that threw *)
FaultKinds(its) ==
    ({its[k].read : k \in 1..Len(its)} \cup {its[k].write : k \in 1..Len(its)})
        \cap {"readFail", "throw", "fail"}

TypeOK ==
    /\ pc \in {"idle", "item", "calling", "sleeping", "caught", "store", "summary", "threw",
             "multiSummary"}
    /\ clock \in Nat
    /\ i \in 1..(Len(prompts) + 1)
    /\ attempt \in 0..maxRetries
    /\ Len(results) <= Len(prompts)
    /\ faults \in 0..MaxFaults
    /\ Len(prev) <= 1 /\ Len(pending) <= 1 /\ Len(lastError) <= 1

InitRun ==
    /\ cache = <<>>
    /\ clock = 0
    /\ pc = "idle"
    /\ prompts = <<>>
    /\ modelToUse = DEFAULT_MODEL
    /\ systemPromptTemplate = FALLBACK_TEMPLATE
    /\ i = 1
    /\ results = <<>>
    /\ attempt = 0
    /\ lastError = <<>>
    /\ pending = <<>>
    /\ log = <<>>
    /\ clientOutcome = NoOutcome
    /\ items = <<>>
    /\ faults = 0
    /\ prev = <<>>
    /\ request = NoRequest
    /\ reply = <<>>
    /\ systemPrompts = <<>>
    /\ spIndex = 0
    /\ promptResults = <<>>
    /\ seeded = <<>>
    /\ evals = <<>>
    /\ stream = <<>>
    /\ savedRun = <<>>
    /\ ratingsFile = <<>>
    /\ saveCalls = <<>>
    /\ rated = <<>>

Init == InitRun /\ probe = <<>>

(* results.push(result) and the loop's step *)
Push(result) ==
    /\ results' = Append(results, result)
    /\ i' = i + 1
    /\ pc' = IF LoopContinues(i + 1, Len(prompts)) THEN "item" ELSE "summary"

(* a bug: only the call to the client is inside the try block *)
InTryOnlyClient(step) == step = "generateTextWithRetry"

(* evaluatePrompt: the awaits that its try block encloses *)
InTry(step) == step \in {"getCachedResponse", "generateTextWithRetry", "setCachedResponse"}

(* an exception raised in evaluatePrompt at the given await *)
Throw(step, error) ==
    IF InTry(step)
    THEN Push(ErrorResult(prompts[i], error))
    ELSE pc' = "threw" /\ UNCHANGED <<i, results>>

(* POST /evaluate: the prompts of the request *)
IsBlank(p) == \A k \in 1..Len(p) : p[k] \in {" ", "\n"}
NonBlank(ps) == SelectSeq(ps, LAMBDA p : ~IsBlank(p))

PromptsOf(req) ==
    CASE req.source = "file" -> NonBlank(req.prompts)
      [] req.source = "datasetName" -> NonBlank(req.prompts)
      [] req.source = "prompts" -> NonBlank(req.prompts)
      [] OTHER -> <<>>

(* a bug: an empty list of prompts is let through *)
RouteErrorAllowsEmpty(req) ==
    IF req.source = "file" /\ PromptsOf(req) = <<>> THEN <<500>>
    ELSE IF req.source = "datasetName" /\ ~req.found THEN <<404>>
    ELSE IF req.source = "none" THEN <<400>>
    ELSE <<>>

(* POST /evaluate: the status of the error response that ends the handler
   before runEvaluation is called (optional) *)
RouteError(req) ==
    IF req.source = "file" /\ PromptsOf(req) = <<>> THEN <<500>>
    ELSE IF req.source = "datasetName" /\ ~req.found THEN <<404>>
    ELSE IF req.source = "none" THEN <<400>>
    ELSE IF PromptsOf(req) = <<>> THEN <<400>>
    ELSE <<>>

(* x || undefined over an optional string *)
OrUndefined(optString) == IF Truthy(optString) THEN optString ELSE <<>>

(* POST /evaluate: a request with a fatal input error is answered at once *)
Reject(req) ==
    /\ pc = "idle"
    /\ clock < MaxWork
    /\ RouteError(req) # <<>>
    /\ reply' = <<ErrorReply(RouteError(req)[1])>>
    /\ UNCHANGED <<cache, clock, pc, prompts, modelToUse, systemPromptTemplate, i, results,
                   attempt, lastError, pending, log, clientOutcome, items, faults, prev,
                   request, probe, sideVars, multiVars>>

(* POST /evaluate with valid input: the handler up to the call of runEvaluation,
   and runEvaluation up to the first iteration of its loop *)
StartRun(req, fileRead) ==
    /\ pc = "idle"
    /\ RouteError(req) = <<>>
    /\ clock < MaxWork
    /\ clock + Len(PromptsOf(req)) <= MaxWork
    /\ LET model == req.options.model
           systemPrompt == OrUndefined(req.options.systemPrompt)
       IN  /\ prompts' = PromptsOf(req)
           /\ modelToUse' = IF model # <<>> THEN model ELSE DEFAULT_MODEL
           /\ systemPromptTemplate' = loadSystemPromptTemplate(systemPrompt, fileRead)
           /\ request' = RequestSeen(model, req.options.systemPrompt,
                                     IF Truthy(systemPrompt) THEN "notRead"
                                     ELSE IF fileRead # <<>> THEN "read" ELSE "failed")
           /\ pc' = IF LoopContinues(1, Len(PromptsOf(req))) THEN "item" ELSE "summary"
    /\ i' = 1
    /\ results' = <<>>
    /\ items' = <<>>
    /\ reply' = <<>>
    /\ systemPrompts' = <<>>
    /\ spIndex' = 0
    /\ promptResults' = <<>>
    /\ seeded' = <<>>
    /\ savedRun' = <<>>
    /\ UNCHANGED <<cache, clock, attempt, lastError, pending, log, clientOutcome, faults,
                   prev, probe, raceVars, streamVars, ratingVars>>

(* a bug: a hit does not return and falls through to the call *)
CallsClientAlways(cached) == TRUE

(* evaluatePrompt: the test of the lookup's result, if (cached) negated *)
CallsClient(cached) == cached = <<>>

(* evaluatePrompt, from its start to the await of generateTextWithRetry.
   outcome: "ok" the read works; "readFail" reading or parsing an existing entry
   fails, which the lookup catches; "throw" the lookup itself throws *)
Lookup(outcome) ==
    /\ pc = "item"
    /\ outcome # "ok" => faults < MaxFaults
    /\ faults' = IF outcome # "ok" THEN faults + 1 ELSE faults
    /\ LET prompt == prompts[i]
           systemPrompt == applyPromptTemplate(systemPromptTemplate, prompt)
           key == generateCacheKey(modelToUse, systemPrompt, prompt)
           cached == getCachedResponse(cache, modelToUse, systemPrompt, prompt, outcome)
           item == NewItem(key, cache, outcome,
                           IF outcome = "throw" THEN "throw"
                           ELSE IF cached # <<>> THEN "hit" ELSE "miss")
       IN  /\ outcome = "readFail" => key \in DOMAIN cache
           /\ IF outcome = "throw"
              THEN /\ items' = Append(items, item)
                   /\ Throw("getCachedResponse", StorageError)
              ELSE IF CallsClient(cached)
              THEN /\ items' = Append(items,
                                      [item EXCEPT !.invocations = 1,
                                                   !.call =
                                                     <<GenerateTextOptions(
                                                         modelToUse, systemPrompt, prompt)>>])
                   /\ pc' = "calling"
                   /\ UNCHANGED <<i, results>>
              ELSE /\ items' = Append(items, item)
                   /\ Push(HitResult(prompt, cached[1]))
    /\ attempt' = 0
    /\ lastError' = <<>>
    /\ log' = <<>>
    /\ clientOutcome' = NoOutcome
    /\ clock' = clock + 1
    /\ UNCHANGED <<cache, prompts, modelToUse, systemPromptTemplate, pending, prev, request,
                   reply, probe, sideVars, multiVars>>

(* generateTextWithRetry: one provider call that succeeds *)
AttemptSucceeds(result) ==
    /\ pc = "calling"
    /\ log' = Append(log, CallOk(result.text, result.latencyMs))
    /\ items' = [items EXCEPT ![i].providerCalled = TRUE,
                              ![i].providerOk = <<[text |-> result.text]>>]
    /\ clientOutcome' = Returned(GenerateTextResult(result.text, result.latencyMs))
    /\ pending' = <<GenerateTextResult(result.text, result.latencyMs)>>
    /\ pc' = "store"
    /\ UNCHANGED <<cache, clock, prompts, modelToUse, systemPromptTemplate, i, results,
                   attempt, lastError, faults, prev, request, reply, probe, sideVars,
                   multiVars>>

(* generateTextWithRetry: one provider call that fails, and the catch block *)
AttemptFails(error) ==
    /\ pc = "calling"
    /\ log' = Append(log, CallErr(error))
    /\ items' = [items EXCEPT ![i].providerCalled = TRUE]
    /\ lastError' = <<error>>
    /\ IF SleepsAndRetries(error, attempt)
       THEN pc' = "sleeping" /\ UNCHANGED clientOutcome
       ELSE pc' = "caught" /\ clientOutcome' = Threw(error)
    /\ UNCHANGED <<cache, clock, prompts, modelToUse, systemPromptTemplate, i, results,
                   attempt, pending, faults, prev, request, reply, probe, sideVars, multiVars>>

(* generateTextWithRetry: the backoff sleep, then the loop's step *)
Backoff ==
    /\ pc = "sleeping"
    /\ log' = Append(log, SleepEv(BackoffDelay(attempt)))
    /\ attempt' = attempt + 1
    /\ IF LoopRuns(attempt + 1)
       THEN pc' = "calling" /\ UNCHANGED clientOutcome
       ELSE pc' = "caught" /\ clientOutcome' = Threw(lastError[1])
    /\ UNCHANGED <<cache, clock, prompts, modelToUse, systemPromptTemplate, i, results,
                   lastError, pending, items, faults, prev, request, reply,
                   probe, sideVars, multiVars>>

(* evaluatePrompt: generateTextWithRetry has thrown; the catch block, after which
   the locals of the client are gone *)
(* a bug: the catch block caches the failure *)
CatchStoresError ==
    /\ pc = "caught"
    /\ Throw("generateTextWithRetry", clientOutcome.err[1])
    /\ attempt' = 0
    /\ lastError' = <<>>
    /\ log' = <<>>
    /\ clientOutcome' = NoOutcome
    /\ cache' = setCachedResponse(cache, modelToUse,
                                  applyPromptTemplate(systemPromptTemplate, prompts[i]),
                                  prompts[i], <<"error">>, 0, clock)
    /\ UNCHANGED <<clock, prompts, modelToUse, systemPromptTemplate, pending, items,
                   faults, prev, request, reply, probe, sideVars, multiVars>>

Catch ==
    /\ pc = "caught"
    /\ Throw("generateTextWithRetry", clientOutcome.err[1])
    /\ attempt' = 0
    /\ lastError' = <<>>
    /\ log' = <<>>
    /\ clientOutcome' = NoOutcome
    /\ UNCHANGED <<cache, clock, prompts, modelToUse, systemPromptTemplate, pending, items,
                   faults, prev, request, reply, probe, sideVars, multiVars>>

(* evaluatePrompt, from the return of generateTextWithRetry to its end, after
   which the locals of the client are gone.
   outcome: "ok" the entry is written; "fail" the write throws *)
Store(outcome) ==
    /\ pc = "store"
    /\ outcome # "ok" => faults < MaxFaults
    /\ faults' = IF outcome # "ok" THEN faults + 1 ELSE faults
    /\ LET prompt == prompts[i]
           systemPrompt == applyPromptTemplate(systemPromptTemplate, prompt)
           result == pending[1]
       IN  IF outcome = "ok"
           THEN /\ cache' = setCachedResponse(cache, modelToUse, systemPrompt, prompt,
                                              result.text, result.latencyMs, clock)
                /\ Push(MissResult(prompt, result))
           ELSE /\ cache' = cache
                /\ Throw("setCachedResponse", StorageError)
    /\ items' = [items EXCEPT ![i].write = outcome]
    /\ pending' = <<>>
    /\ attempt' = 0
    /\ lastError' = <<>>
    /\ log' = <<>>
    /\ clientOutcome' = NoOutcome
    /\ UNCHANGED <<clock, prompts, modelToUse, systemPromptTemplate, prev, request, reply,
                   probe, sideVars, multiVars>>

(* POST /evaluate: the summary of the 200 response; filter(r => r.error) keeps
   the results whose error is a non-empty string *)
SuccessReply(rs) ==
    [status |-> 200, total |-> Len(rs),
     cached |-> Cardinality({k \in 1..Len(rs) : rs[k].cached}),
     errors |-> Cardinality({k \in 1..Len(rs) : Truthy(rs[k].error)})]

(* runEvaluation returns its results to the handler, which saves the run if the
   request names it and sends the response; the locals are gone.
   save: "none" the request has no runName, "ok" saveRun works, "fail" it throws *)
Return(save) ==
    /\ pc = "summary"
    /\ spIndex = 0
    /\ reply' = IF save = "fail" THEN <<ErrorReply(500)>> ELSE <<SuccessReply(results)>>
    /\ prev' = IF prompts = <<>> THEN prev
               ELSE <<[prompts |-> prompts, model |-> modelToUse,
                       template |-> systemPromptTemplate,
                       ok |-> [k \in 1..Len(items) |-> items[k].providerOk],
                       failed |-> [k \in 1..Len(items) |->
                                      /\ items[k].invocations > 0
                                      /\ items[k].providerOk = <<>>],
                       faults |-> FaultKinds(items)]>>
    /\ pc' = "idle"
    /\ prompts' = <<>>
    /\ i' = 1
    /\ results' = <<>>
    /\ items' = <<>>
    /\ attempt' = 0
    /\ lastError' = <<>>
    /\ log' = <<>>
    /\ clientOutcome' = NoOutcome
    /\ modelToUse' = DEFAULT_MODEL
    /\ systemPromptTemplate' = FALLBACK_TEMPLATE
    /\ request' = NoRequest
    /\ savedRun' = IF save = "ok"
                   THEN <<SavedRun(IF request.model # <<>> THEN request.model
                                   ELSE ROUTE_DEFAULT_MODEL)>>
                   ELSE <<>>
    /\ UNCHANGED <<cache, clock, pending, faults, probe, raceVars, streamVars,
                   ratingVars, multiVars>>

----------------------------------------------------------------------------
(* The multi-prompt route: POST /evaluate with a dataset name and the names  *)
(* of stored system prompts (requests that upload no file), and              *)
(* runMultiPromptEvaluation                                                  *)

(* the prompt store *)
StoredPrompts == { [name |-> "p1", content |-> <<"S", " ", PH>>],
                   [name |-> "p2", content |-> <<"T">>] }

loadPrompt(name) ==
    IF \E sp \in StoredPrompts : sp.name = name
    THEN <<CHOOSE sp \in StoredPrompts : sp.name = name>>
    ELSE <<>>

(* the promptNames of a request; "px" names no stored prompt *)
PromptNameLists ==
    { <<>>, <<"p1">>, <<"p2">>, <<"p1", "p2">>, <<"p2", "p1">>, <<"p1", "p1">>,
      <<"px">>, <<"p1", "px">> }

DatasetLists == UNION { [1..n -> Messages] : n \in 0..MaxWork }

MultiRequest(runName, dataset, ps, names, model) ==
    [runName |-> runName, dataset |-> dataset, prompts |-> ps, promptNames |-> names,
     model |-> model]

(* the requests: runName says whether a run name is given; dataset is "none" when
   no dataset is named, "missing" when loadDataset finds none, "found" otherwise *)
MultiRequests ==
    { MultiRequest(FALSE, "found", << <<"a">> >>, <<"p1">>, <<>>),
      MultiRequest(TRUE, "none", <<>>, <<"p1">>, <<>>),
      MultiRequest(TRUE, "missing", <<>>, <<"p1">>, <<>>) }
    \cup { MultiRequest(TRUE, "found", ps, names, <<>>) :
              ps \in DatasetLists, names \in PromptNameLists }
    \cup { MultiRequest(TRUE, "found", << <<"a">> >>, <<"p1">>, <<"m">>) }

(* the status of the error response that ends the handler before
   runMultiPromptEvaluation is called (optional) *)
MultiRouteError(req) ==
    IF ~req.runName THEN <<400>>
    ELSE IF req.dataset = "missing" THEN <<404>>
    ELSE IF req.dataset = "none" THEN <<400>>
    ELSE IF req.prompts = <<>> THEN <<400>>
    ELSE IF \E j \in 1..Len(req.promptNames) : loadPrompt(req.promptNames[j]) = <<>>
         THEN <<404>>
    ELSE IF req.promptNames = <<>> THEN <<400>>
    ELSE <<>>

(* runMultiPromptEvaluation: the evaluation of system prompt j begins, or the
   loop over the system prompts ends *)
BeginPrompt(j, sps, ps) ==
    /\ spIndex' = j
    /\ i' = 1
    /\ results' = <<>>
    /\ items' = <<>>
    /\ IF LoopContinues(j, Len(sps))
       THEN /\ systemPromptTemplate' = sps[j].content
            /\ pc' = IF LoopContinues(1, Len(ps)) THEN "item" ELSE "summary"
       ELSE /\ systemPromptTemplate' = FALLBACK_TEMPLATE
            /\ pc' = "multiSummary"

(* a request with a fatal input error is answered at once *)
RejectMulti(req) ==
    /\ pc = "idle"
    /\ MultiRouteError(req) # <<>>
    /\ reply' = <<ErrorReply(MultiRouteError(req)[1])>>
    /\ UNCHANGED <<cache, clock, pc, prompts, modelToUse, systemPromptTemplate, i, results,
                   attempt, lastError, pending, log, clientOutcome, items, faults, prev,
                   request, probe, sideVars, multiVars>>

(* a request with valid input, the first one that is served: the handler up to
   the call of runMultiPromptEvaluation, and the latter up to its first item *)
StartMulti(req) ==
    /\ pc = "idle"
    /\ clock = 0
    /\ MultiRouteError(req) = <<>>
    /\ systemPrompts' = [j \in 1..Len(req.promptNames) |-> loadPrompt(req.promptNames[j])[1]]
    /\ prompts' = req.prompts
    /\ modelToUse' = IF req.model # <<>> THEN req.model ELSE ROUTE_DEFAULT_MODEL
    /\ promptResults' = <<>>
    /\ seeded' = <<>>
    /\ request' = NamedPromptsRequest(req.model)
    /\ reply' = <<>>
    /\ BeginPrompt(1, systemPrompts', req.prompts)
    /\ savedRun' = <<>>
    /\ UNCHANGED <<cache, clock, attempt, lastError, pending, log, clientOutcome, faults,
                   prev, probe, raceVars, streamVars, ratingVars>>

PromptResult(systemPrompt, rs) ==
    [promptName |-> systemPrompt.name, promptContent |-> systemPrompt.content, results |-> rs]

(* runMultiPromptEvaluation: the results of one system prompt are collected and
   the next system prompt begins *)
CollectPromptResult ==
    /\ pc = "summary"
    /\ spIndex # 0
    /\ promptResults' = Append(promptResults, PromptResult(systemPrompts[spIndex], results))
    /\ BeginPrompt(spIndex + 1, systemPrompts, prompts)
    /\ UNCHANGED <<cache, clock, prompts, modelToUse, attempt, lastError, pending, log,
                   clientOutcome, faults, prev, request, reply, systemPrompts, seeded,
                   probe, sideVars>>

(* the sums of the summary *)
RECURSIVE TotalTests(_)
TotalTests(prs) ==
    IF prs = <<>> THEN 0 ELSE Len(Head(prs).results) + TotalTests(Tail(prs))

RECURSIVE TotalCached(_)
TotalCached(prs) ==
    IF prs = <<>> THEN 0
    ELSE Cardinality({k \in 1..Len(Head(prs).results) : Head(prs).results[k].cached})
         + TotalCached(Tail(prs))

RECURSIVE TotalErrors(_)
TotalErrors(prs) ==
    IF prs = <<>> THEN 0
    ELSE Cardinality({k \in 1..Len(Head(prs).results) : Truthy(Head(prs).results[k].error)})
         + TotalErrors(Tail(prs))

(* a bug: the total is assigned, not added *)
MultiSuccessReplyLastTotal(prs) ==
    [status |-> 200,
     total |-> IF prs = <<>> THEN 0 ELSE Len(prs[Len(prs)].results),
     cached |-> TotalCached(prs), errors |-> TotalErrors(prs)]

(* the summary of the 200 response *)
MultiSuccessReply(prs) ==
    [status |-> 200, total |-> TotalTests(prs), cached |-> TotalCached(prs),
     errors |-> TotalErrors(prs)]

(* runMultiPromptEvaluation returns to the handler, which saves the run and sends
   the response with the PromptResults.  save: "ok" saveRun works, "fail" it throws *)
ReturnMulti(save) ==
    /\ pc = "multiSummary"
    /\ reply' = IF save = "fail" THEN <<ErrorReply(500)>>
                ELSE <<MultiSuccessReply(promptResults)>>
    /\ pc' = "idle"
    /\ i' = 1
    /\ results' = <<>>
    /\ items' = <<>>
    /\ modelToUse' = DEFAULT_MODEL
    /\ request' = NoRequest
    /\ savedRun' = IF save = "ok" THEN <<SavedRun(modelToUse)>> ELSE <<>>
    /\ UNCHANGED <<cache, clock, prompts, systemPromptTemplate, attempt, lastError, pending,
                   log, clientOutcome, faults, prev, probe, raceVars, streamVars,
                   ratingVars, multiVars>>

----------------------------------------------------------------------------
(* The multi-prompt route with an uploaded CSV file of rows (question,      *)
(* prompt_name, prompt, answer): the answers are written to the cache       *)
(* before the run                                                           *)

(* the prompts that the rows of a file name: "p1" with the content that is
   stored under that name, "p3" a prompt that is not stored yet *)
CsvPromptContents == [p1 |-> <<"S", " ", PH>>, p3 |-> <<"N", " ", PH>>]

ImportRow(question, promptName, promptContent, answer) ==
    [question |-> question, promptName |-> promptName, promptContent |-> promptContent,
     answer |-> answer]

(* the rows of a file: two answers to one question under one prompt, another
   question, and another prompt *)
ImportRows ==
    { ImportRow(<<"a">>, "p1", CsvPromptContents.p1, "s1"),
      ImportRow(<<"a">>, "p1", CsvPromptContents.p1, "s2"),
      ImportRow(<<"b">>, "p1", CsvPromptContents.p1, "s1"),
      ImportRow(<<"a">>, "p3", CsvPromptContents.p3, "s1") }

(* a row whose prompt "p2" differs from the content stored under that name *)
ConflictingRow == ImportRow(<<"a">>, "p2", <<"X">>, "s1")

ImportRowLists ==
    UNION { [1..n -> ImportRows] : n \in 1..MaxRows } \cup { <<ConflictingRow>> }

SeedRequest(rows, names, model) == [rows |-> rows, promptNames |-> names, model |-> model]

(* the requests that upload a file, with a run name and a dataset name *)
SeedRequests ==
    { SeedRequest(rows, <<>>, <<"m">>) : rows \in ImportRowLists }
    \cup { SeedRequest(<<r>>, <<"p1">>, <<>>) : r \in ImportRows }

(* the elements of a sequence in the order of their first occurrence *)
RECURSIVE Unique(_)
Unique(seq) ==
    IF seq = <<>> THEN <<>>
    ELSE LET front == Unique(SubSeq(seq, 1, Len(seq) - 1))
             last == seq[Len(seq)]
         IN  IF \E k \in 1..Len(front) : front[k] = last THEN front ELSE Append(front, last)

extractUniqueQuestions(rows) == Unique([r \in 1..Len(rows) |-> rows[r].question])

(* one prompt per name, with the content of the first row that names it *)
extractUniquePrompts(rows) ==
    LET names == Unique([r \in 1..Len(rows) |-> rows[r].promptName])
        first(n) == CHOOSE r \in 1..Len(rows) :
                        /\ rows[r].promptName = n
                        /\ \A q \in 1..(r - 1) : rows[q].promptName # n
    IN  [k \in 1..Len(names) |->
             [name |-> names[k], content |-> rows[first(names[k])].promptContent]]

(* validateAndPreparePrompts: no prompt of the file is stored with another content *)
PromptsValid(csvPrompts) ==
    \A k \in 1..Len(csvPrompts) :
        LET existing == loadPrompt(csvPrompts[k].name)
        IN  existing # <<>> => existing[1].content = csvPrompts[k].content

(* a bug: the entry is keyed by the prompt content as it is in the file *)
appliedSystemPromptRaw(row) == row.promptContent

(* prepopulateCache: the system prompt under which a row is cached *)
appliedSystemPrompt(row) == ReplaceFrom(row.promptContent, 1, row.question)

(* prepopulateCache: the rows are written one after the other; writes[r] is "ok"
   when the write of row r works and "fail" when it throws, which is caught *)
RECURSIVE prepopulateCache(_, _, _, _, _)
prepopulateCache(store, rows, model, writes, now) ==
    IF rows = <<>> THEN store
    ELSE LET n == Len(rows)
             before == prepopulateCache(store, SubSeq(rows, 1, n - 1), model, writes, now)
         IN  IF writes[n] = "ok"
             THEN setCachedResponse(before, model, appliedSystemPrompt(rows[n]),
                                    rows[n].question, rows[n].answer, 0, now)
             ELSE before

(* the system prompts of the run: those of the file, then those that the request
   names and that the file does not hold *)
SeedSystemPrompts(req) ==
    LET csvPrompts == extractUniquePrompts(req.rows)
        extra == SelectSeq(req.promptNames,
                           LAMBDA n : \A k \in 1..Len(csvPrompts) : csvPrompts[k].name # n)
    IN  csvPrompts \o [k \in 1..Len(extra) |-> loadPrompt(extra[k])[1]]

(* the file holds a prompt that is stored with another content: 400 *)
RejectSeeded(req) ==
    /\ pc = "idle"
    /\ clock < MaxWork
    /\ ~PromptsValid(extractUniquePrompts(req.rows))
    /\ reply' = <<ErrorReply(400)>>
    /\ UNCHANGED <<cache, clock, pc, prompts, modelToUse, systemPromptTemplate, i, results,
                   attempt, lastError, pending, log, clientOutcome, items, faults, prev,
                   request, probe, sideVars, multiVars>>

(* a request with a valid file, the first one that the multi-prompt route
   serves: the answers are written to the cache, then the handler calls
   runMultiPromptEvaluation, which runs up to its first item *)
StartSeeded(req, writes) ==
    /\ pc = "idle"
    /\ spIndex = 0
    /\ clock + Len(extractUniqueQuestions(req.rows)) * Len(SeedSystemPrompts(req)) <= MaxWork
    /\ PromptsValid(extractUniquePrompts(req.rows))
    /\ DOMAIN writes = 1..Len(req.rows)
    /\ LET failed == Cardinality({r \in 1..Len(req.rows) : writes[r] = "fail"})
           model == IF req.model # <<>> THEN req.model ELSE ROUTE_DEFAULT_MODEL
       IN  /\ faults + failed <= MaxFaults
           /\ faults' = faults + failed
           /\ cache' = prepopulateCache(cache, req.rows, model, writes, clock)
           /\ modelToUse' = model
    /\ seeded' = [r \in 1..Len(req.rows) |-> [row |-> req.rows[r], write |-> writes[r]]]
    /\ systemPrompts' = SeedSystemPrompts(req)
    /\ prompts' = extractUniqueQuestions(req.rows)
    /\ promptResults' = <<>>
    /\ request' = NamedPromptsRequest(req.model)
    /\ reply' = <<>>
    /\ BeginPrompt(1, systemPrompts', prompts')
    /\ savedRun' = <<>>
    /\ UNCHANGED <<clock, attempt, lastError, pending, log, clientOutcome, prev, probe,
                   raceVars, streamVars, ratingVars>>

(* both routes, with a cache store that works and a provider that answers or
   refuses the call; the runs of the single-prompt route find no template
   file, and they are not saved or their save fails *)
NextMulti ==
    \/ \E req \in MultiRequests : RejectMulti(req)
    \/ \E req \in MultiRequests : StartMulti(req)
    \/ \E req \in RouteRequests : Reject(req)
    \/ \E req \in RouteRequests : StartRun(req, <<>>)
    \/ Lookup("ok")
    \/ \E result \in ProviderResults : AttemptSucceeds(result)
    \/ AttemptFails(Err(TRUE, 401, 0, <<"invalid", " ", "key">>))
    \/ Catch
    \/ Store("ok")
    \/ CollectPromptResult
    \/ \E save \in {"ok", "fail"} : ReturnMulti(save)
    \/ \E save \in {"none", "fail"} : Return(save)

SpecMulti == Init /\ [][NextMulti]_vars

Next ==
    \/ \E req \in RouteRequests : Reject(req)
    \/ \E req \in RouteRequests, fileRead \in FileReads : StartRun(req, fileRead)
    \/ \E outcome \in {"ok", "readFail", "throw"} : Lookup(outcome)
    \/ \E result \in ProviderResults : AttemptSucceeds(result)
    \/ \E error \in ProviderErrors : AttemptFails(error)
    \/ Backoff
    \/ Catch
    \/ \E outcome \in {"ok", "fail"} : Store(outcome)
    \/ \E save \in {"none", "ok", "fail"} : Return(save)

Spec == Init /\ [][Next]_vars

(* the requests to the single-prompt route that run under the model and the
   system prompt of the rows of a file *)
SeedRouteRequests ==
    { RouteRequest("prompts", FALSE, <<m>>,
                   [model |-> <<"m">>, systemPrompt |-> <<CsvPromptContents.p1>>]) :
        m \in Messages }

(* a request to the single-prompt route that is served before any file is
   uploaded *)
StartRunBeforeUpload(req) == spIndex = 0 /\ StartRun(req, <<>>)

(* the single-prompt route and the multi-prompt route with an uploaded file,
   with a cache store whose seed writes and whose reads of an entry can fail
   and a provider that answers or refuses the call *)
NextSeed ==
    \/ \E req \in SeedRequests : RejectSeeded(req)
    \/ \E req \in SeedRouteRequests : StartRunBeforeUpload(req)
    \/ \E req \in SeedRequests :
          \E writes \in [1..Len(req.rows) -> {"ok", "fail"}] : StartSeeded(req, writes)
    \/ \E outcome \in {"ok", "readFail"} : Lookup(outcome)
    \/ \E result \in ProviderResults : AttemptSucceeds(result)
    \/ AttemptFails(Err(TRUE, 401, 0, <<"invalid", " ", "key">>))
    \/ Catch
    \/ Store("ok")
    \/ CollectPromptResult
    \/ \E save \in {"ok", "fail"} : ReturnMulti(save)
    \/ \E save \in {"none", "ok", "fail"} : Return(save)

SpecSeed == Init /\ [][NextSeed]_vars

----------------------------------------------------------------------------
(* The run-level time limit: req.setTimeout and res.setTimeout arm the       *)
(* socket's timer for 30 minutes; nothing in the handler, in the loops or in *)
(* the client reads a timer                                                  *)

(* the 30 minutes elapse while the request is being served *)
Expire ==
    /\ pc \notin {"idle", "threw"}
    /\ request.expiredAt = <<>>
    /\ request' = [request EXCEPT !.expiredAt = <<Len(promptResults) * Len(prompts)
                                                  + Len(results)>>]
    /\ UNCHANGED <<cache, clock, pc, prompts, modelToUse, systemPromptTemplate, i, results,
                   attempt, lastError, pending, log, clientOutcome, items, faults, prev,
                   reply, probe, sideVars, multiVars>>

(* the requests served while the timer runs: two messages under one system
   prompt, and one message under two system prompts *)
TimedRequests ==
    { MultiRequest(TRUE, "found", << <<"a">>, <<"b">> >>, <<"p1">>, <<>>),
      MultiRequest(TRUE, "found", << <<"a">> >>, <<"p1", "p2">>, <<>>) }

(* both routes and the timer, with a cache store that works and a provider
   that answers, refuses the call or limits the rate *)
NextTimeout ==
    \/ \E req \in TimedRequests : StartMulti(req)
    \/ \E req \in RouteRequests : StartRun(req, <<>>)
    \/ Expire
    \/ Lookup("ok")
    \/ \E result \in ProviderResults : AttemptSucceeds(result)
    \/ \E error \in {Err(TRUE, 429, 0, <<"overloaded">>),
                      Err(TRUE, 401, 0, <<"invalid", " ", "key">>)} : AttemptFails(error)
    \/ Backoff
    \/ Catch
    \/ Store("ok")
    \/ CollectPromptResult
    \/ \E save \in {"ok", "fail"} : ReturnMulti(save)
    \/ \E save \in {"none", "ok", "fail"} : Return(save)

SpecTimeout == Init /\ [][NextTimeout]_vars

----------------------------------------------------------------------------
(* Runs that evaluate an item at the same time: each one executes            *)
(* evaluatePrompt on its own, and the awaits of the lookup, of the client    *)
(* and of the cache write are where the others can run                       *)

(* what the provider answers to the concurrent calls *)
RaceResults == { [text |-> "r1", latencyMs |-> 7], [text |-> "r2", latencyMs |-> 9] }

EvalArgs(model, template, prompt) == [model |-> model, template |-> template, prompt |-> prompt]

(* one evaluation: its arguments, where it stands ("lookup", "calling", "store",
   "done"), the result of the client (optional) and its own result (optional) *)
NewEval(args) == [args |-> args, pc |-> "lookup", pending |-> <<>>, result |-> <<>>]

EvalSystemPrompt(e) == applyPromptTemplate(e.args.template, e.args.prompt)

(* MaxRuns runs start together, each on one message, under the same model and
   the same template *)
StartConcurrent(messages) ==
    /\ pc = "idle"
    /\ evals = <<>>
    /\ evals' = [p \in 1..MaxRuns |->
                    NewEval(EvalArgs(DEFAULT_MODEL, FALLBACK_TEMPLATE, messages[p]))]
    /\ UNCHANGED <<runVars, probe, streamVars, saveVars, ratingVars>>

(* evaluatePrompt of run p, from its start to the await of the client *)
EvalLookup(p) ==
    /\ p \in DOMAIN evals
    /\ evals[p].pc = "lookup"
    /\ LET e == evals[p]
           cached == getCachedResponse(cache, e.args.model, EvalSystemPrompt(e),
                                       e.args.prompt, "ok")
       IN  evals' = [evals EXCEPT ![p] =
                        IF CallsClient(cached)
                        THEN [e EXCEPT !.pc = "calling"]
                        ELSE [e EXCEPT !.pc = "done",
                                       !.result = <<HitResult(e.args.prompt, cached[1])>>]]
    /\ UNCHANGED <<runVars, probe, streamVars, saveVars, ratingVars>>

(* generateTextWithRetry of run p returns *)
EvalCallSucceeds(p, result) ==
    /\ p \in DOMAIN evals
    /\ evals[p].pc = "calling"
    /\ evals' = [evals EXCEPT ![p].pc = "store",
                              ![p].pending = <<GenerateTextResult(result.text,
                                                                  result.latencyMs)>>]
    /\ UNCHANGED <<runVars, probe, streamVars, saveVars, ratingVars>>

(* generateTextWithRetry of run p throws *)
EvalCallFails(p, error) ==
    /\ p \in DOMAIN evals
    /\ evals[p].pc = "calling"
    /\ evals' = [evals EXCEPT ![p].pc = "done",
                              ![p].result = <<ErrorResult(evals[p].args.prompt, error)>>]
    /\ UNCHANGED <<runVars, probe, streamVars, saveVars, ratingVars>>

(* evaluatePrompt of run p, from the return of the client to its end *)
EvalStore(p) ==
    /\ p \in DOMAIN evals
    /\ evals[p].pc = "store"
    /\ LET e == evals[p]
       IN  /\ cache' = setCachedResponse(cache, e.args.model, EvalSystemPrompt(e),
                                         e.args.prompt, e.pending[1].text,
                                         e.pending[1].latencyMs, clock)
           /\ evals' = [evals EXCEPT ![p].pc = "done",
                                     ![p].pending = <<>>,
                                     ![p].result = <<MissResult(e.args.prompt, e.pending[1])>>]
    /\ UNCHANGED <<clock, pc, prompts, modelToUse, systemPromptTemplate, i, results,
                   attempt, lastError, pending, log, clientOutcome, items, faults, prev,
                   request, reply, probe, multiVars, streamVars,
                   saveVars, ratingVars>>

NextRace ==
    \/ \E messages \in [1..MaxRuns -> Messages] : StartConcurrent(messages)
    \/ \E p \in 1..MaxRuns : EvalLookup(p)
    \/ \E p \in 1..MaxRuns, result \in RaceResults : EvalCallSucceeds(p, result)
    \/ \E p \in 1..MaxRuns : EvalCallFails(p, Err(TRUE, 401, 0, <<"invalid", " ", "key">>))
    \/ \E p \in 1..MaxRuns : EvalStore(p)

SpecRace == Init /\ [][NextRace]_vars

----------------------------------------------------------------------------
(* generateCacheKey applied on its own to two triples (model, systemPrompt, *)
(* userMessage) of bounded total length                                     *)

KeyAlphabet == {"a", "|", " "}
KeyStrings == UNION { [1..n -> KeyAlphabet] : n \in 0..MaxKeyLen }
KeyTriples == { t \in KeyStrings \X KeyStrings \X KeyStrings :
                  Len(t[1]) + Len(t[2]) + Len(t[3]) <= MaxKeyLen }

InitKey ==
    /\ InitRun
    /\ \E a \in KeyTriples, b \in KeyTriples :
          probe = <<[a |-> a, b |-> b, keyA |-> <<>>, keyB |-> <<>>]>>

ComputeKeys ==
    /\ probe # <<>>
    /\ probe[1].keyA = <<>>
    /\ probe' = <<[probe[1] EXCEPT
                     !.keyA = <<generateCacheKey(probe[1].a[1], probe[1].a[2], probe[1].a[3])>>,
                     !.keyB = <<generateCacheKey(probe[1].b[1], probe[1].b[2], probe[1].b[3])>>]>>
    /\ UNCHANGED <<runVars, sideVars>>

NextKey == ComputeKeys

SpecKey == InitKey /\ [][NextKey]_vars

----------------------------------------------------------------------------
(* applyPromptTemplate applied on its own to a template and a user message  *)
(* of bounded lengths                                                       *)

TemplateAlphabet == {"T", PH, "$"}
MessageAlphabet == {"a", PH, "$", "&", "backtick", "apostrophe"}
TemplateStrings == UNION { [1..n -> TemplateAlphabet] : n \in 0..MaxTemplateLen }
MessageStrings == UNION { [1..n -> MessageAlphabet] : n \in 0..MaxMessageLen }

InitTemplate ==
    /\ InitRun
    /\ \E t \in TemplateStrings, m \in MessageStrings :
          probe = <<[template |-> t, userMessage |-> m, out |-> <<>>]>>

ApplyTemplate ==
    /\ probe # <<>>
    /\ probe[1].out = <<>>
    /\ probe' = <<[probe[1] EXCEPT
                     !.out = <<applyPromptTemplate(probe[1].template, probe[1].userMessage)>>]>>
    /\ UNCHANGED <<runVars, sideVars>>

NextTemplate == ApplyTemplate

SpecTemplate == InitTemplate /\ [][NextTemplate]_vars

----------------------------------------------------------------------------
(* isRateLimitError applied on its own to an error                          *)

ErrorAlphabet == {"rate", "Rate", " ", "limit"}
ErrorMessages ==
    UNION { [1..n -> ErrorAlphabet] : n \in 0..MaxErrorLen }
        \cup { <<"too", " ", "many", " ", "requests">>,
               <<"Too", " ", "Many", " ", "Requests">>,
               <<"429", " ", "Too", " ", "many", " ", "requests", "!">>,
               <<"too", " ", "many">>,
               <<"too", "many", "requests">> }
StatusCodes == {0, 429, 500}

InitClassify ==
    /\ InitRun
    /\ \E isErr \in BOOLEAN, statusCode \in StatusCodes, status \in StatusCodes,
          message \in ErrorMessages :
          probe = <<[error |-> Err(isErr, statusCode, status, message), out |-> <<>>]>>

Classify ==
    /\ probe # <<>>
    /\ probe[1].out = <<>>
    /\ probe' = <<[probe[1] EXCEPT !.out = <<isRateLimitError(probe[1].error)>>]>>
    /\ UNCHANGED <<runVars, sideVars>>

NextClassify == Classify

SpecClassify == InitClassify /\ [][NextClassify]_vars

----------------------------------------------------------------------------
(* The streaming client: generateTextWithRetry collects the parts of        *)
(* result.fullStream into one text.  The usage that a finish part carries   *)
(* is not part of the text and is left out.                                 *)

Part(type, text, url) == [type |-> type, text |-> text, url |-> url]

(* the parts a stream can deliver; "source" stands for every type that the
   loop has no branch for *)
StreamParts ==
    { Part("text-delta", <<"x">>, ""),
      Part("reasoning-delta", <<"q">>, ""),
      Part("reasoning-end", <<>>, ""),
      Part("citation", <<>>, "u"),
      Part("finish", <<>>, ""),
      Part("source", <<>>, "u") }

(* `[<sup>${citationCounter}</sup>](${citation.url})` *)
CitationMarker(citationCounter, url) ==
    <<"[<sup>", ToString(citationCounter), "</sup>](", url, ")">>

(* `<thinking>${reasoningText}</thinking>` *)
Thinking(reasoningText) == <<"<thinking>">> \o reasoningText \o <<"</thinking>">>

(* the locals that the try block of one attempt declares; arrived is the
   history of the parts of this attempt, dropped tells whether an earlier
   attempt failed after it had collected text *)
StreamLocals(a, dropped) ==
    [attempt |-> a, markdownText |-> <<>>, reasoningText |-> <<>>, citationCounter |-> 0,
     arrived |-> <<>>, dropped |-> dropped, outcome |-> "streaming"]

(* a bug: the reasoning text is not reset at the end of a block *)
onPartKeepsReasoning(s, part) ==
    IF part.type = "text-delta"
    THEN [s EXCEPT !.markdownText = @ \o part.text]
    ELSE IF part.type = "reasoning-delta"
    THEN [s EXCEPT !.reasoningText = @ \o part.text]
    ELSE IF part.type = "reasoning-end"
    THEN IF s.reasoningText # <<>>
         THEN [s EXCEPT !.markdownText = @ \o Thinking(s.reasoningText)]
         ELSE s
    ELSE IF part.type = "citation"
    THEN [s EXCEPT !.citationCounter = @ + 1,
                   !.markdownText = @ \o CitationMarker(s.citationCounter + 1, part.url)]
    ELSE s

(* the body of the for await loop *)
onPart(s, part) ==
    IF part.type = "text-delta"
    THEN [s EXCEPT !.markdownText = @ \o part.text]
    ELSE IF part.type = "reasoning-delta"
    THEN [s EXCEPT !.reasoningText = @ \o part.text]
    ELSE IF part.type = "reasoning-end"
    THEN IF s.reasoningText # <<>>
         THEN [s EXCEPT !.markdownText = @ \o Thinking(s.reasoningText),
                        !.reasoningText = <<>>]
         ELSE s
    ELSE IF part.type = "citation"
    THEN [s EXCEPT !.citationCounter = @ + 1,
                   !.markdownText = @ \o CitationMarker(s.citationCounter + 1, part.url)]
    ELSE s

(* generateTextWithRetry is called: the first attempt opens its stream *)
StartStream ==
    /\ stream = <<>>
    /\ stream' = <<StreamLocals(0, FALSE)>>
    /\ UNCHANGED <<runVars, probe, raceVars, saveVars, ratingVars>>

(* the stream delivers a part *)
StreamPart(part) ==
    /\ stream # <<>>
    /\ stream[1].outcome = "streaming"
    /\ Len(stream[1].arrived) < MaxParts
    /\ stream' = <<[onPart(stream[1], part) EXCEPT !.arrived = Append(@, part)]>>
    /\ UNCHANGED <<runVars, probe, raceVars, saveVars, ratingVars>>

(* the stream ends: the call returns markdownText *)
StreamEnds ==
    /\ stream # <<>>
    /\ stream[1].outcome = "streaming"
    /\ stream' = <<[stream[1] EXCEPT !.outcome = "returned"]>>
    /\ UNCHANGED <<runVars, probe, raceVars, saveVars, ratingVars>>

(* the stream throws: the catch block starts the next attempt or rethrows *)
StreamThrows(error) ==
    /\ stream # <<>>
    /\ stream[1].outcome = "streaming"
    /\ stream' = IF SleepsAndRetries(error, stream[1].attempt)
                 THEN <<StreamLocals(stream[1].attempt + 1,
                                     stream[1].dropped \/ stream[1].markdownText # <<>>)>>
                 ELSE <<[stream[1] EXCEPT !.outcome = "threw"]>>
    /\ UNCHANGED <<runVars, probe, raceVars, saveVars, ratingVars>>

NextStream ==
    \/ StartStream
    \/ \E part \in StreamParts : StreamPart(part)
    \/ StreamEnds
    \/ \E error \in { Err(TRUE, 429, 0, <<"overloaded">>),
                      Err(TRUE, 401, 0, <<"invalid", " ", "key">>) } : StreamThrows(error)

SpecStream == Init /\ [][NextStream]_vars

----------------------------------------------------------------------------
(* The ratings of one run by one user: saveRating reads the file, replaces  *)
(* the rating of the question and writes the file back.  The comment and    *)
(* the timestamps of a rating are left out.                                 *)

(* the questions of the run that are rated: (promptIndex, questionIndex) *)
RatedQuestions == { <<0, 0>>, <<0, 1>> }
RatingValues == { 1, 5 }

QuestionRating(question, rating) ==
    [promptIndex |-> question[1], questionIndex |-> question[2], rating |-> rating]

(* saveRating: the filter that removes the rating of the question, and the
   push of the new one *)
withRating(ratings, question, rating) ==
    Append(SelectSeq(ratings, LAMBDA r : ~(r.promptIndex = question[1]
                                           /\ r.questionIndex = question[2])),
           QuestionRating(question, rating))

(* loadRatings: the ratings of the file, or none when the file does not exist
   or cannot be read or parsed *)
loadRatings(file, outcome) == IF file # <<>> /\ outcome = "ok" THEN file[1] ELSE <<>>

(* saveRating is called *)
CallSaveRating(question, rating) ==
    /\ Len(saveCalls) < MaxCalls
    /\ saveCalls' = Append(saveCalls, [question |-> question, rating |-> rating,
                                       pc |-> "load", existing |-> <<>>])
    /\ UNCHANGED <<ratingsFile, rated, runVars, probe, raceVars, streamVars, saveVars>>

(* call c, from its start to the await of the write.
   outcome: "ok" the read works; "readFail" the file exists and reading or
   parsing it fails, which loadRatings catches *)
LoadExisting(c, outcome) ==
    /\ c \in DOMAIN saveCalls
    /\ saveCalls[c].pc = "load"
    /\ outcome = "readFail" => ratingsFile # <<>>
    /\ saveCalls' = [saveCalls EXCEPT
                        ![c].pc = "write",
                        ![c].existing = withRating(loadRatings(ratingsFile, outcome),
                                                   saveCalls[c].question,
                                                   saveCalls[c].rating)]
    /\ UNCHANGED <<ratingsFile, rated, runVars, probe, raceVars, streamVars, saveVars>>

(* call c, from the write to its end.
   outcome: "ok" the file is written; "fail" the write throws *)
WriteRatings(c, outcome) ==
    /\ c \in DOMAIN saveCalls
    /\ saveCalls[c].pc = "write"
    /\ IF outcome = "ok"
       THEN /\ ratingsFile' = <<saveCalls[c].existing>>
            /\ rated' = [q \in DOMAIN rated \cup {saveCalls[c].question} |->
                            IF q = saveCalls[c].question THEN saveCalls[c].rating
                            ELSE rated[q]]
            /\ saveCalls' = [saveCalls EXCEPT ![c].pc = "done"]
       ELSE /\ saveCalls' = [saveCalls EXCEPT ![c].pc = "threw"]
            /\ UNCHANGED <<ratingsFile, rated>>
    /\ UNCHANGED <<runVars, probe, raceVars, streamVars, saveVars>>

NextRating ==
    \/ \E question \in RatedQuestions, rating \in RatingValues :
          CallSaveRating(question, rating)
    \/ \E c \in 1..MaxCalls, outcome \in {"ok", "readFail"} : LoadExisting(c, outcome)
    \/ \E c \in 1..MaxCalls, outcome \in {"ok", "fail"} : WriteRatings(c, outcome)

SpecRating == Init /\ [][NextRating]_vars

----------------------------------------------------------------------------
(* Reading the state *)

(* the template with each placeholder token replaced by the characters of the
   message, the inserted text left as it is *)
RECURSIVE Verbatim(_, _)
Verbatim(template, userMessage) ==
    IF template = <<>> THEN <<>>
    ELSE (IF Head(template) = PH THEN userMessage ELSE <<Head(template)>>)
         \o Verbatim(Tail(template), userMessage)

HasPlaceholder(template) == \E k \in 1..Len(template) : template[k] = PH

(* the default template of the request being served: the configured file, or
   the built-in text when the file could not be read *)
DefaultTemplate == IF request.file = "read" THEN FileTemplate ELSE FALLBACK_TEMPLATE

(* the string that is hashed into the cache key *)
KeyOf(model, systemPrompt, userMessage) ==
    model \o <<"|">> \o systemPrompt \o <<"|">> \o userMessage


CallEvents(l) == SelectSeq(l, LAMBDA e : e.type = "call")
NumCalls(l) == Len(CallEvents(l))
Sleeps(l) == LET sl == SelectSeq(l, LAMBDA e : e.type = "sleep")
             IN  [k \in 1..Len(sl) |-> sl[k].ms]
AllRateLimited(l) ==
    \A k \in 1..Len(l) :
        l[k].type = "call" => ~l[k].ok /\ isRateLimitError(l[k].err[1])

(* item k of the run, once evaluated, failed: its lookup threw, its call to the
   client threw, or its cache write threw *)
ItemFailed(k) ==
    \/ items[k].lookup = "throw"
    \/ items[k].invocations > 0 /\ items[k].providerOk = <<>>
    \/ items[k].write = "fail"

(* the run that is executing repeats the model and the template of the last one *)
SameCallAsPrev ==
    /\ prev # <<>>
    /\ pc \notin {"idle", "threw"}
    /\ prev[1].model = modelToUse
    /\ prev[1].template = systemPromptTemplate

(* the items of the run that were served from the cache, and those that failed *)
NumHits == Cardinality({k \in 1..Len(items) : items[k].lookup = "hit"})
NumFailed == Cardinality({k \in 1..Len(items) : ItemFailed(k)})

(* the rows of the imported file that seed the pair of message k and of the
   system prompt being evaluated, and the last of them *)
PairRows(k) ==
    { r \in 1..Len(seeded) : /\ seeded[r].row.question = prompts[k]
                             /\ seeded[r].row.promptContent = systemPromptTemplate }
LastRow(k) == CHOOSE r \in PairRows(k) : \A q \in PairRows(k) : q <= r

(* the status code of an error: statusCode when it has one, else status *)
StatusCodeOf(error) == IF error.statusCode # 0 THEN error.statusCode ELSE error.status

(* a word in capitals *)
Capitals(token) ==
    CASE token \in {"rate", "Rate"} -> "RATE"
      [] token \in {"limit", "Limit"} -> "LIMIT"
      [] token \in {"too", "Too"} -> "TOO"
      [] token \in {"many", "Many"} -> "MANY"
      [] token \in {"requests", "Requests"} -> "REQUESTS"
      [] OTHER -> token

(* the message holds the phrase, the case of the letters left aside *)
ContainsIgnoringCase(message, phrase) ==
    \E k \in 1..Len(message) :
        /\ k + Len(phrase) - 1 <= Len(message)
        /\ \A j \in 1..Len(phrase) : Capitals(message[k + j - 1]) = Capitals(phrase[j])

(* the cache key of a concurrent evaluation *)
EvalKey(e) == KeyOf(e.args.model, Verbatim(e.args.template, e.args.prompt), e.args.prompt)

(* the evaluation missed the cache and its provider call succeeded *)
EvalWrote(e) == e.pc = "done" /\ ~e.result[1].cached /\ e.result[1].error = <<>>

RECURSIVE ConcatAll(_)
ConcatAll(seqs) == IF seqs = <<>> THEN <<>> ELSE Head(seqs) \o ConcatAll(Tail(seqs))

(* how many of the first k parts are citations *)
CitationsUpTo(parts, k) == Cardinality({ j \in 1..k : parts[j].type = "citation" })

(* the reasoning block that the reasoning-end at k closes starts after the
   reasoning-end before it *)
BlockStart(parts, k) ==
    LET ends == { j \in 1..(k - 1) : parts[j].type = "reasoning-end" }
    IN  IF ends = {} THEN 1 ELSE 1 + CHOOSE j \in ends : \A h \in ends : h <= j

BlockText(parts, k) ==
    LET from == BlockStart(parts, k)
    IN  ConcatAll([j \in 1..(k - from) |->
                      IF parts[from + j - 1].type = "reasoning-delta"
                      THEN parts[from + j - 1].text
                      ELSE <<>>])

(* what part k adds to the text; wrapEmpty tells whether a reasoning block
   without text is wrapped too *)
Contribution(parts, k, wrapEmpty) ==
    CASE parts[k].type = "text-delta" -> parts[k].text
      [] parts[k].type = "reasoning-end" ->
            IF wrapEmpty \/ BlockText(parts, k) # <<>>
            THEN <<"<thinking>">> \o BlockText(parts, k) \o <<"</thinking>">>
            ELSE <<>>
      [] parts[k].type = "citation" ->
            <<"[<sup>", ToString(CitationsUpTo(parts, k)), "</sup>](", parts[k].url, ")">>
      [] OTHER -> <<>>

Rendered(parts, wrapEmpty) ==
    ConcatAll([k \in 1..Len(parts) |-> Contribution(parts, k, wrapEmpty)])

(* the provider call of item k failed: a terminal error, or the retries ran out *)
ProviderFailed(k) == items[k].invocations > 0 /\ items[k].providerOk = <<>>

(* the cache holds for the key of item k what it held when the item was looked up *)
EntryAsLookedUp(k) ==
    /\ items[k].key \in DOMAIN cache <=> items[k].hadEntry
    /\ items[k].hadEntry => cache[items[k].key] = items[k].entry[1]

(* item j of the run is the first one with its message *)
FirstOccurrence(j) == \A h \in 1..(j - 1) : prompts[h] # prompts[j]

(* every call of saveRating that was made has ended *)
AllSaved == saveCalls # <<>> /\ \A c \in DOMAIN saveCalls : saveCalls[c].pc \in {"done", "threw"}

(* the ratings of a question in the file *)
StoredRatings(file, q) ==
    IF file = <<>> THEN <<>>
    ELSE SelectSeq(file[1], LAMBDA r : r.promptIndex = q[1] /\ r.questionIndex = q[2])

NoFaultInThisRun == \A k \in 1..Len(items) : ~Faulty(items[k])

(* in the last run and in this one, the only storage failures are failed reads
   of an entry, which getCachedResponse catches and reports as a miss *)
OnlyCaughtReadFailures == (prev[1].faults \cup FaultKinds(items)) \subseteq {"readFail"}

----------------------------------------------------------------------------
(* C1: runEvaluation never throws; when its loop has ended it holds exactly  *)
(* one result per input message, every item has been evaluated, and each     *)
(* failed item is recorded in the error field of the result at its index.    *)
C1_FailuresStayPerItem ==
    /\ pc # "threw"
    /\ pc = "summary" => Len(results) = Len(prompts) /\ Len(items) = Len(prompts)
    /\ pc \in {"item", "calling", "sleeping", "caught", "store"} => i <= Len(prompts)
    /\ \A k \in 1..Len(results) : ItemFailed(k) => results[k].error # <<>>

C1_Witness ==
    /\ pc = "summary"
    /\ Len(prompts) = 2
    /\ ItemFailed(1) /\ results[1].error # <<>>
    /\ ~ItemFailed(2) /\ results[2].error = <<>> /\ ~results[2].cached

(* C2: the results are as many as the messages and result k carries message  *)
(* k as its prompt, whatever the outcome of each item.                       *)
C2_ResultsInMessageOrder ==
    /\ Len(results) <= Len(prompts)
    /\ pc = "summary" => Len(results) = Len(prompts)
    /\ \A k \in 1..Len(results) : results[k].prompt = prompts[k]

C2_Witness ==
    /\ pc = "summary"
    /\ Len(prompts) = 2
    /\ prompts[1] # prompts[2]
    /\ results[1].error # <<>>
    /\ results[2].error = <<>>

C2_WitnessDuplicate ==
    /\ pc = "summary"
    /\ Len(prompts) = 2
    /\ prompts[1] = prompts[2]
    /\ ~results[1].cached
    /\ results[2].cached

(* C3 as stated: an item whose key has an entry in the cache when it is      *)
(* looked up makes no provider call, and its result is cached with the       *)
(* entry's response and latency.  (Stated for the lookups that return: a     *)
(* lookup that throws is left aside here.)                                   *)
C3_Original ==
    \A k \in 1..Len(items) :
        items[k].hadEntry /\ items[k].lookup # "throw" =>
            /\ ~items[k].providerCalled
            /\ k <= Len(results) =>
                 /\ results[k].cached
                 /\ results[k].response = items[k].entry[1].response
                 /\ results[k].latencyMs = items[k].entry[1].latencyMs

(* C3 as amended: the same, when the lookup reads the entry without a        *)
(* storage failure.                                                          *)
C3_HitServesEntry ==
    \A k \in 1..Len(items) :
        items[k].hadEntry /\ items[k].read = "ok" =>
            /\ ~items[k].providerCalled
            /\ items[k].invocations = 0
            /\ k <= Len(results) =>
                 /\ results[k].cached
                 /\ results[k].response = items[k].entry[1].response
                 /\ results[k].latencyMs = items[k].entry[1].latencyMs

C3_Witness ==
    \E k \in 1..Len(results) :
        /\ items[k].hadEntry /\ items[k].read = "ok"
        /\ results[k].cached
        /\ results[k].latencyMs > 0

(* C4 as stated: if the provider call of an item of the last run succeeded,  *)
(* a run with the same model and template gives, for the same message, a     *)
(* cached result with the response that call produced, and no provider call. *)
(* (Stated for the runs in which no lookup and no cache write throws.)       *)
C4_Original ==
    SameCallAsPrev /\ OnlyCaughtReadFailures =>
        \A k \in 1..Len(prev[1].prompts), j \in 1..Len(results) :
            prev[1].ok[k] # <<>> /\ prev[1].prompts[k] = prompts[j] =>
                /\ results[j].cached
                /\ results[j].response = prev[1].ok[k][1].text
                /\ ~items[j].providerCalled

(* C4 as amended: the same, provided no cache read or write fails in either  *)
(* of the two runs.                                                          *)
C4_RerunIsServedFromCache ==
    SameCallAsPrev /\ prev[1].faults = {} /\ NoFaultInThisRun =>
        \A k \in 1..Len(prev[1].prompts), j \in 1..Len(results) :
            prev[1].ok[k] # <<>> /\ prev[1].prompts[k] = prompts[j] =>
                /\ results[j].cached
                /\ results[j].response = prev[1].ok[k][1].text
                /\ ~items[j].providerCalled

C4_Witness ==
    /\ SameCallAsPrev /\ prev[1].faults = {} /\ NoFaultInThisRun
    /\ pc = "summary"
    /\ prev[1].prompts = prompts
    /\ Len(prompts) = 1
    /\ prev[1].ok[1] # <<>>
    /\ results[1].cached

(* C5: the retrying client is invoked exactly once for an item whose lookup  *)
(* misses and not at all for an item whose lookup hits; never twice.         *)
C5_OneInvocationPerMiss ==
    \A k \in 1..Len(items) :
        /\ items[k].lookup = "miss" => items[k].invocations = 1
        /\ items[k].lookup = "hit" => items[k].invocations = 0 /\ ~items[k].providerCalled
        /\ items[k].invocations <= 1

C5_Witness ==
    /\ pc = "summary"
    /\ \E k, j \in 1..Len(items) :
        /\ items[k].lookup = "miss" /\ items[k].invocations = 1
        /\ items[j].lookup = "hit" /\ items[j].invocations = 0

(* C6: an invocation never makes more than 5 provider calls; one that ends   *)
(* with every call rate-limited has made exactly 5 and throws the error of   *)
(* the 5th.                                                                  *)
C6_FiveCallsThenThrow ==
    /\ NumCalls(log) <= 5
    /\ clientOutcome.state # "none" /\ AllRateLimited(log) =>
         /\ NumCalls(log) = 5
         /\ clientOutcome = Threw(CallEvents(log)[5].err[1])

C6_Witness ==
    /\ clientOutcome.state = "threw"
    /\ AllRateLimited(log)
    /\ NumCalls(log) = 5

(* C7: a provider call that fails with a terminal error is the last event of *)
(* the invocation (no call and no sleep follows it) and the invocation       *)
(* throws that same error.                                                   *)
C7_TerminalErrorPropagatesAtOnce ==
    \A k \in 1..Len(log) :
        log[k].type = "call" /\ ~log[k].ok /\ ~isRateLimitError(log[k].err[1]) =>
            /\ k = Len(log)
            /\ clientOutcome = Threw(log[k].err[1])

C7_Witness ==
    /\ clientOutcome.state = "threw"
    /\ Len(log) = 1
    /\ ~isRateLimitError(log[1].err[1])

C7_WitnessLater ==
    /\ clientOutcome.state = "threw"
    /\ NumCalls(log) = 3
    /\ ~isRateLimitError(log[Len(log)].err[1])

(* C8: a successful provider call is the last event of the invocation, which *)
(* returns that call's text and latency; it is call number n after n-1       *)
(* rate-limited calls, each followed by one sleep, with n <= 5.              *)
C8_SuccessEndsTheInvocation ==
    \A k \in 1..Len(log) :
        log[k].type = "call" /\ log[k].ok =>
            /\ k = Len(log)
            /\ clientOutcome = Returned([text |-> log[k].text, latencyMs |-> log[k].latencyMs])
            /\ AllRateLimited(SubSeq(log, 1, k - 1))
            /\ Len(log) = 2 * NumCalls(log) - 1
            /\ NumCalls(log) <= 5

C8_Witness ==
    /\ clientOutcome.state = "returned"
    /\ NumCalls(log) = 5
    /\ Len(Sleeps(log)) = 4

(* C9 as stated: an invocation whose 5 attempts are all rate-limited has     *)
(* slept 1000, 2000, 4000, 8000 and 16000 ms, 31000 ms in all.               *)
C9_Original ==
    clientOutcome.state = "threw" /\ AllRateLimited(log) /\ NumCalls(log) = 5 =>
        Sleeps(log) = <<1000, 2000, 4000, 8000, 16000>>
(* C10 as stated: two triples have the same cache key exactly when they are  *)
(* equal field by field.                                                     *)
C10_Original ==
    probe # <<>> /\ probe[1].keyA # <<>> =>
        (probe[1].keyA = probe[1].keyB <=> probe[1].a = probe[1].b)

(* C11 as stated: applyPromptTemplate returns the template with every        *)
(* placeholder replaced by the exact characters of the message, whatever '$' *)
(* sequences or placeholder text the message holds.                          *)
C11_Original ==
    probe # <<>> /\ probe[1].out # <<>> =>
        probe[1].out[1] = Verbatim(probe[1].template, probe[1].userMessage)

(* C12: applied to a template that holds no placeholder, applyPromptTemplate *)
(* returns the template itself, whatever the message.                        *)
C12_NoPlaceholderNoChange ==
    probe # <<>> /\ probe[1].out # <<>> /\ ~HasPlaceholder(probe[1].template) =>
        probe[1].out[1] = probe[1].template

C12_Witness ==
    /\ probe # <<>> /\ probe[1].out # <<>>
    /\ probe[1].template = <<"T", "$">>
    /\ probe[1].userMessage = <<"$", "&">>
    /\ probe[1].out[1] = <<"T", "$">>

(* C13: a run whose request carries no system prompt, or an empty one, uses  *)
(* the default template (the file's text, or the built-in text when the file *)
(* cannot be read) to resolve the system prompt of every item, in its cache  *)
(* key, in the entry it writes and in the call to the client; the run never  *)
(* throws.                                                                   *)
C13_DefaultTemplateIsUsed ==
    /\ pc # "threw"
    /\ pc # "idle" /\ ~request.custom =>
         /\ request.file \in {"read", "failed"}
         /\ systemPromptTemplate = DefaultTemplate
         /\ \A k \in 1..Len(items) :
               LET systemPrompt == Verbatim(DefaultTemplate, prompts[k])
                   key == KeyOf(modelToUse, systemPrompt, prompts[k])
               IN  /\ items[k].key = key
                   /\ items[k].call # <<>> => items[k].call[1].systemPrompt = systemPrompt
                   /\ items[k].write = "ok" =>
                         key \in DOMAIN cache /\ cache[key].systemPrompt = systemPrompt

C13_Witness ==
    /\ pc = "summary"
    /\ ~request.custom /\ request.file = "failed"
    /\ items[1].call # <<>>
    /\ items[1].write = "ok"
    /\ results[1].error = <<>>

(* C14 as stated: an item whose provider call succeeded and whose cache      *)
(* write failed has a result with the provider's response, cached = false    *)
(* and no error.                                                             *)
C14_Original ==
    \A k \in 1..Len(results) :
        items[k].providerOk # <<>> /\ items[k].write = "fail" =>
            /\ results[k].response = items[k].providerOk[1].text
            /\ ~results[k].cached
            /\ results[k].error = <<>>

(* C15 as stated: a lookup that meets a storage failure never throws: it     *)
(* reports a miss and the item goes on to the client.                        *)
C15_Original ==
    \A k \in 1..Len(items) :
        items[k].read # "ok" => items[k].lookup = "miss" /\ items[k].invocations = 1

(* C16: a result with cached = true has no error and carries the response    *)
(* and the latency of the entry that the lookup found; the latency of every  *)
(* entry is the one the client reported for the response it stores.          *)
C16_CachedResultCarriesEntryLatency ==
    /\ \A k \in 1..Len(results) :
          results[k].cached =>
              /\ results[k].error = <<>>
              /\ items[k].entry # <<>>
              /\ results[k].latencyMs = items[k].entry[1].latencyMs
    /\ \A key \in DOMAIN cache :
          \E r \in ProviderResults :
              r.text = cache[key].response /\ r.latencyMs = cache[key].latencyMs

C16_Witness ==
    /\ prev # <<>>
    /\ Len(results) = 1
    /\ results[1].cached
    /\ results[1].latencyMs = 7
    /\ items[1].entry[1].timestamp = 1

(* C17 as stated: every result either has a non-empty response and no error, *)
(* or has a non-empty error message, an empty response, cached = false and   *)
(* latencyMs = 0, and never both.                                            *)
C17_Original ==
    \A k \in 1..Len(results) :
        LET r == results[k]
            succeeded == r.response # "" /\ r.error = <<>>
            failed == /\ r.error # <<>> /\ r.error[1] # <<>>
                      /\ r.response = "" /\ ~r.cached /\ r.latencyMs = 0
        IN  (succeeded \/ failed) /\ ~(succeeded /\ failed)

(* C18 as stated: the summary of the 200 response counts the results in      *)
(* total, the items served from the cache in cached and the failed items in  *)
(* errors, with cached + errors <= total.                                    *)
C18_Original ==
    [][pc = "summary" /\ reply' # <<>> /\ reply'[1].status = 200 =>
          /\ reply'[1].total = Len(results)
          /\ reply'[1].cached = NumHits
          /\ reply'[1].errors = NumFailed
          /\ reply'[1].cached + reply'[1].errors <= reply'[1].total]_vars

(* C19: a multi-prompt run over n system prompts and k messages collects its *)
(* PromptResults in the order of the system prompts, each with k results in  *)
(* message order, and its response holds all n of them with totalTests = n*k.*)
C19_PromptResultsInOrder ==
    spIndex # 0 =>
        /\ Len(promptResults) <= Len(systemPrompts)
        /\ \A j \in 1..Len(promptResults) :
              /\ promptResults[j].promptName = systemPrompts[j].name
              /\ promptResults[j].promptContent = systemPrompts[j].content
              /\ Len(promptResults[j].results) = Len(prompts)
              /\ \A k \in 1..Len(prompts) :
                    promptResults[j].results[k].prompt = prompts[k]
        /\ (pc = "idle" /\ reply # <<>> /\ reply[1].status = 200) =>
              /\ Len(promptResults) = Len(systemPrompts)
              /\ reply[1].total = Len(systemPrompts) * Len(prompts)

C19_Witness ==
    /\ pc = "idle"
    /\ reply # <<>>
    /\ reply[1].status = 200
    /\ reply[1].total = 4
    /\ Len(systemPrompts) = 2
    /\ systemPrompts[1].name = "p2"
    /\ systemPrompts[2].name = "p1"
    /\ prompts = << <<"b">>, <<"a">> >>
    /\ promptResults[1].results[2].error # <<>>
    /\ promptResults[2].results[1].response = "r1"

(* C20: a request with a fatal input error is answered by one error response *)
(* and nothing else happens: no item is evaluated, no provider call is made, *)
(* no result is produced and the cache is not written; a request that does   *)
(* start a run has at least one message and, on the multi-prompt route, at   *)
(* least one system prompt, each of them a stored one.                       *)
C20_FatalInputErrorRejectedBeforeWork ==
    [][pc = "idle" =>
          IF pc' = "idle"
          THEN /\ reply' # <<>>
               /\ reply'[1].status \in {400, 404, 500}
               /\ items' = <<>>
               /\ results' = <<>>
               /\ UNCHANGED <<cache, clock, log, pending, promptResults>>
          ELSE /\ reply' = <<>>
               /\ pc' = "item"
               /\ prompts' # <<>>
               /\ spIndex' # 0 =>
                     /\ systemPrompts' # <<>>
                     /\ \A j \in 1..Len(systemPrompts') :
                           systemPrompts'[j] \in StoredPrompts]_vars

C20_Witness ==
    /\ pc = "idle"
    /\ reply # <<>>
    /\ reply[1].status = 404
    /\ cache # <<>>
    /\ promptResults # <<>>
    /\ items = <<>>

(* C21 as stated: a run whose items have all been evaluated is answered with *)
(* the 200 response that carries all its results, however many items failed. *)
C21_Original ==
    [][pc = "summary" /\ pc' = "idle" =>
          /\ reply' # <<>>
          /\ reply'[1].status = 200
          /\ reply'[1].total = Len(results)]_vars

(* C22 as stated: in the run that follows a seed operation, the result of    *)
(* each seeded pair is cached, carries the answer of the last row that seeds *)
(* the pair, and no provider call is made for it.  (Stated for the pairs     *)
(* whose seed writes all worked and whose lookup returns.)                   *)
C22_Original ==
    spIndex # 0 =>
        \A k \in 1..Len(results) :
            /\ PairRows(k) # {}
            /\ \A r \in PairRows(k) : seeded[r].write = "ok"
            /\ items[k].lookup # "throw"
            => /\ results[k].cached
               /\ results[k].response = seeded[LastRow(k)].row.answer
               /\ ~items[k].providerCalled

(* C22 as amended: the same, when the lookup of the pair reads the entry     *)
(* without a storage failure.                                                *)
C22_SeededPairServedFromCache ==
    spIndex # 0 =>
        \A k \in 1..Len(results) :
            /\ PairRows(k) # {}
            /\ \A r \in PairRows(k) : seeded[r].write = "ok"
            /\ items[k].read = "ok"
            => /\ results[k].cached
               /\ results[k].response = seeded[LastRow(k)].row.answer
               /\ results[k].error = <<>>
               /\ ~items[k].providerCalled
               /\ items[k].invocations = 0

C22_Witness ==
    /\ pc = "summary"
    /\ spIndex = 1
    /\ Len(seeded) = 2
    /\ seeded[1].row.answer = "s1" /\ seeded[1].write = "ok"
    /\ seeded[2].row.answer = "s2" /\ seeded[2].write = "ok"
    /\ PairRows(1) = {1, 2}
    /\ items[1].read = "ok"
    /\ results[1].cached
    /\ results[1].response = "s2"

(* C23 as stated: once the run-level time limit has elapsed, no provider     *)
(* call and no backoff sleep is started, and every item that was not         *)
(* complete at that time gets an error result.                               *)
C23_Original ==
    [][request.expiredAt # <<>> /\ pc # "idle" =>
          /\ Len(log') <= Len(log)
          /\ \A k \in 1..Len(results') :
                Len(promptResults') * Len(prompts) + k > request.expiredAt[1] =>
                    /\ results'[k].error # <<>>
                    /\ results'[k].response = ""]_vars

(* C24: isRateLimitError says that an error is retryable exactly when its    *)
(* status code (statusCode, else status) is 429 or its message holds 'rate   *)
(* limit' or 'too many requests' in any case of the letters; every other     *)
(* error is terminal.                                                        *)
C24_RetryableIffRateLimited ==
    probe # <<>> /\ probe[1].out # <<>> =>
        LET error == probe[1].error
        IN  probe[1].out[1] =
                (\/ StatusCodeOf(error) = 429
                 \/ ContainsIgnoringCase(error.message, <<"rate", " ", "limit">>)
                 \/ ContainsIgnoringCase(error.message,
                                         <<"too", " ", "many", " ", "requests">>))

C24_Witness ==
    /\ probe # <<>>
    /\ probe[1].error = Err(TRUE, 500, 429, <<"Rate", " ", "limit">>)
    /\ probe[1].out = <<TRUE>>

C24_WitnessTerminal ==
    /\ probe # <<>>
    /\ probe[1].error = Err(FALSE, 0, 0, <<>>)
    /\ probe[1].out = <<FALSE>>

(* C25 as stated: when concurrent runs have evaluated the same uncached key, *)
(* each with a provider call that succeeded, the entry in the cache carries  *)
(* the response that every one of them returned.                             *)
C25_Original ==
    \A p, q \in DOMAIN evals :
        EvalWrote(evals[p]) /\ EvalWrote(evals[q]) /\ EvalKey(evals[p]) = EvalKey(evals[q]) =>
            /\ evals[p].result[1].response = evals[q].result[1].response
            /\ cache[EvalKey(evals[p])].response = evals[p].result[1].response

(* C26 as stated: an entry of the cache stays, and no operation changes the  *)
(* response stored under its key.                                            *)
C26_Original ==
    [][\A key \in DOMAIN cache :
          /\ key \in DOMAIN cache'
          /\ cache'[key].response = cache[key].response]_vars

(* C27 as stated: the text that the streaming client returns is made of the
   parts of the attempt that succeeded, in the order of their arrival: each
   text delta as it is, each reasoning block wrapped in thinking tags where its
   reasoning-end arrived, the i-th citation as the marker numbered i, nothing
   for any other part and nothing of an attempt that failed *)
C27_Original ==
    stream # <<>> /\ stream[1].outcome = "returned" =>
        stream[1].markdownText = Rendered(stream[1].arrived, TRUE)

(* C27, amended: the same, for the reasoning blocks that hold text; a
   reasoning-end that closes a block without text adds nothing *)
C27_TextOfSuccessfulAttempt ==
    stream # <<>> /\ stream[1].outcome = "returned" =>
        stream[1].markdownText = Rendered(stream[1].arrived, FALSE)

(* an attempt that had collected text failed, and the attempt that succeeded
   got a citation, a reasoning block and a second citation *)
C27_Witness ==
    /\ stream # <<>>
    /\ stream[1].outcome = "returned"
    /\ stream[1].attempt > 0
    /\ stream[1].dropped
    /\ stream[1].arrived = <<Part("citation", <<>>, "u"), Part("reasoning-delta", <<"q">>, ""),
                             Part("reasoning-end", <<>>, ""), Part("citation", <<>>, "u")>>
    /\ stream[1].markdownText =
          <<"[<sup>", "1", "</sup>](", "u", ")", "<thinking>", "q", "</thinking>",
            "[<sup>", "2", "</sup>](", "u", ")">>

(* C28 as stated: an item whose provider call fails writes no cache entry; a
   later run over the same pair (same model, template and message) misses the
   cache and calls the provider again; no result served from the cache carries
   an error *)
C28_Original ==
    /\ \A k \in 1..Len(results) : ProviderFailed(k) => items[k].write = "none"
    /\ SameCallAsPrev =>
         \A k \in 1..Len(prev[1].prompts), j \in 1..Len(results) :
            prev[1].failed[k] /\ prev[1].prompts[k] = prompts[j] =>
                ~results[j].cached /\ items[j].providerCalled
    /\ \A j \in 1..Len(results) : results[j].cached => results[j].error = <<>>

(* C28, amended: an item whose provider call fails writes no cache entry: the
   cache holds for its pair what it held when the item was looked up.  When no
   read of that run failed and no other item of that run succeeded on it, the
   first item of the next run over the same pair whose lookup meets no storage
   failure misses the cache and calls the provider again.  No result served
   from the cache carries an error. *)
C28_FailureIsNotCached ==
    /\ \A k \in 1..Len(results) :
          ProviderFailed(k) =>
              /\ items[k].write = "none"
              /\ k = Len(items) => EntryAsLookedUp(k)
    /\ SameCallAsPrev =>
         \A k \in 1..Len(prev[1].prompts), j \in 1..Len(items) :
            (/\ prev[1].failed[k]
             /\ "readFail" \notin prev[1].faults
             /\ \A h \in 1..Len(prev[1].prompts) :
                   prev[1].prompts[h] = prev[1].prompts[k] => prev[1].ok[h] = <<>>
             /\ prev[1].prompts[k] = prompts[j]
             /\ FirstOccurrence(j)
             /\ items[j].read = "ok") =>
                /\ items[j].lookup = "miss"
                /\ j <= Len(results) => ~results[j].cached /\ items[j].providerCalled
    /\ \A j \in 1..Len(results) :
          results[j].cached => results[j].error = <<>> /\ items[j].hadEntry

(* the provider call of the only item of a run failed with no entry in the
   cache, and the next run over the same pair called the provider again *)
C28_Witness ==
    /\ SameCallAsPrev
    /\ pc = "summary"
    /\ prev[1].prompts = prompts
    /\ Len(prompts) = 1
    /\ prev[1].failed[1]
    /\ items[1].read = "ok"
    /\ items[1].lookup = "miss"
    /\ ~results[1].cached
    /\ items[1].providerCalled
    /\ cache = << >>

(* C29 as stated: the model recorded in a saved run is the model of the run
   that has just ended: the one in its cache keys and in its provider calls,
   also when the request names no model *)
C29_Original ==
    [][pc = "summary" /\ pc' = "idle" /\ savedRun' # <<>> =>
          /\ savedRun'[1].model = modelToUse
          /\ \A k \in 1..Len(items) :
                /\ SubSeq(items[k].key, 1, Len(savedRun'[1].model)) = savedRun'[1].model
                /\ items[k].call # <<>> => items[k].call[1].model = savedRun'[1].model]_vars

(* C30 as stated: when the calls of saveRating on one ratings file have ended,
   whether they overlapped or not and whether the read of the file failed or
   not, the file holds exactly one rating for each question that was rated,
   the latest one that was saved for it; and no call removes from the file
   the rating of a question other than its own *)
C30_Original ==
    /\ AllSaved =>
          \A q \in RatedQuestions :
             IF q \in DOMAIN rated
             THEN /\ Len(StoredRatings(ratingsFile, q)) = 1
                  /\ StoredRatings(ratingsFile, q)[1].rating = rated[q]
             ELSE StoredRatings(ratingsFile, q) = <<>>
    /\ \A q \in DOMAIN rated : StoredRatings(ratingsFile, q) # <<>>

====
